---- MODULE Spec2Model ----
(***************************************************************************)
(* Model of src/app1.py: the Streamlit chat front end over a RAG engine.   *)
(*                                                                         *)
(* One script run ("render pass") of a session executes app1.py top to     *)
(* bottom in the session's own script thread.  st.session_state is per     *)
(* session; chat_engine is the module-level object imported from rag     *)
(* (line 12): Python imports a module once per process, so every session   *)
(* stores a reference to the same engine (line 94).                        *)
(*                                                                         *)
(* Text is modelled as a sequence of atoms (characters, or a literal kept  *)
(* as one atom).  Python's None is the one-atom sequence None, which no    *)
(* text of the model equals.                                               *)
(***************************************************************************)
EXTENDS Integers, Sequences, FiniteSets, TLC

\* ------------------------------------------------------------------ bounds
NumSessions == 2
MaxMessages == 4
MaxNodes == 3
MaxRows == 2

Sessions == 1..NumSessions

\* ------------------------------------------------------------ Python values
None == <<"None">>

\* 'if x:' on an optional string: None and "" are falsy, anything else truthy.
Truthy(x) == x # None /\ x # <<>>

Last(seq) == seq[Len(seq)]

\* ------------------------------------------------- session setup constants
pathway_explaination == <<"RAG combines search and AI generation: ...">>

DEFAULT_MESSAGES ==
    << [role |-> "user", content |-> <<"What is RAG?">>],
       [role |-> "assistant", content |-> pathway_explaination] >>

\* The engine object every session is bound to.
Engines == {"rag.chat_engine"}
chat_engine == "rag.chat_engine"
Unbound == "unbound"

\* ------------------------------------------------------ source attribution
\* str.split('/'): the segments between the separators.
RECURSIVE Split(_, _)
Split(str, acc) ==
    IF str = <<>> THEN <<acc>>
    ELSE IF Head(str) = "/" THEN <<acc>> \o Split(Tail(str), <<>>)
    ELSE Split(Tail(str), Append(acc, Head(str)))

\* The f-string of line 147: the last segment of full_path.split('/') between
\* two backquote characters (the atom Backquote).
Backquote == "BQ"

DisplayName(full_path) == <<Backquote>> \o Last(Split(full_path, <<>>)) \o <<Backquote>>

\* source.metadata.get("path", source.metadata.get("name")); an absent key is None.
FullPath(source) ==
    IF source.path # None THEN source.path ELSE source.name

InSeq(x, seq) == \E i \in 1..Len(seq) : seq[i] = x

AppendAlways(sources, name) == Append(sources, name)

\* if name not in sources: sources.append(name)
AppendSource(sources, name) ==
    IF InSeq(name, sources) THEN sources ELSE Append(sources, name)

\* getattr(response, "source_nodes", []) or []
SourceNodes(response) ==
    IF response.shape \in {"absent", "none"} THEN <<>> ELSE response.source_nodes

\* The for loop inside try/except AttributeError: a node whose metadata is not
\* a mapping raises AttributeError, which leaves the loop.
RECURSIVE AttributeLoop(_, _, _)
AttributeLoop(nodes, i, sources) ==
    IF i > Len(nodes) THEN sources
    ELSE IF nodes[i].malformed THEN sources
    ELSE LET full_path == FullPath(nodes[i]) IN
         IF Truthy(full_path)
         THEN AttributeLoop(nodes, i + 1, AppendSource(sources, DisplayName(full_path)))
         ELSE AttributeLoop(nodes, i + 1, sources)

Sources(response) == AttributeLoop(SourceNodes(response), 1, <<>>)

\* ", ".join(sources)
RECURSIVE Join(_)
Join(sources) ==
    IF sources = <<>> THEN <<>>
    ELSE IF Len(sources) = 1 THEN sources[1]
    ELSE sources[1] \o <<",", " ">> \o Join(Tail(sources))

Label == "\n\nDocuments looked up to obtain this answer: "

ResponseTextAlways(response, sources) ==
    response.response \o <<Label>> \o Join(sources)

\* response.response + (f"\n\nDocuments looked up ...: {sources_text}" if sources else "")
ResponseText(response, sources) ==
    response.response \o (IF sources # <<>> THEN <<Label>> \o Join(sources) ELSE <<>>)

\* ------------------------------------------------------ indexed files table
Null == "null"
last_modified_time == "last_modified"
NoFrame == [rows |-> <<>>, columns |-> <<>>]

AnyIsNa(rows) == \E i \in 1..Len(rows) : rows[i].status = Null

\* df = DataFrame(rows, columns=[label, "status"]); drop "status" if .isna().any()
FrameColumns(rows) ==
    IF AnyIsNa(rows) THEN <<last_modified_time>> ELSE <<last_modified_time, "status">>

\* ------------------------------------------------------------ input domains
\* What st.chat_input hands to a run: None when nothing was submitted, else the
\* submitted text (a question, or a text of spaces only).
Inputs == {None, <<" ">>, <<"q">>}

Statuses == {Null, "indexed"}
Rows == [filename : {"f"}, status : Statuses]
Snapshots == UNION {[1..k -> Rows] : k \in 0..MaxRows}

PathValues == {<<>>, <<"d", "/", "a">>, <<"e", "/", "a">>}
NameValues == {<<"b">>, <<"x", "/", "a">>}
MalformedNode == [malformed |-> TRUE, path |-> None, name |-> None]
Nodes ==
    [malformed : {FALSE}, path : PathValues \cup {None}, name : NameValues \cup {None}]
        \cup {MalformedNode}
NodeSeqs == UNION {[1..k -> Nodes] : k \in 0..MaxNodes}

Answers == {<<"y">>, <<"n", "o">>}
NoResponse == [response |-> None, shape |-> "absent", source_nodes |-> <<>>]

\* Every shape of response the engine can hand back.
AllResponses ==
    {[response |-> a, shape |-> sh, source_nodes |-> <<>>] :
        a \in Answers, sh \in {"absent", "none"}}
    \cup {[response |-> a, shape |-> "list", source_nodes |-> ns] :
            a \in Answers, ns \in NodeSeqs}

PathNode(p) == [malformed |-> FALSE, path |-> p, name |-> None]

\* The response used where several sessions are explored together.
SharedResponses == {[response |-> <<"y">>, shape |-> "absent", source_nodes |-> <<>>]}

\* The responses used where one whole session is explored.
TurnResponses ==
    { [response |-> <<"y">>, shape |-> "absent", source_nodes |-> <<>>],
      [response |-> <<"y">>, shape |-> "list",
       source_nodes |-> <<PathNode(<<"d", "/", "a">>), PathNode(<<"e", "/", "a">>)>>] }

\* -------------------------------------------------------------------- state
VARIABLES
    has_messages,    \* "messages" in st.session_state, per session
    messages,        \* st.session_state.messages, per session
    session_engine,  \* st.session_state.chat_engine, per session: an engine or Unbound
    chat_history,    \* chat_history of each engine object
    pc,              \* where the session's script run stands
    prompt,          \* what st.chat_input returns in the current run
    seed_i,          \* index of the loop over DEFAULT_MESSAGES (lines 88-89)
    df,              \* the indexed-files frame of the current run
    chat_query,      \* argument of the chat call in flight
    response,        \* the response of line 141
    sources          \* the list built by lines 142-149

vars == <<has_messages, messages, session_engine, chat_history, pc, prompt, seed_i,
          df, chat_query, response, sources>>

\* A script run has ended: normally, or with the exception Streamlit reports.
Ended == {"idle", "chat_failed", "index_error"}

Init ==
    /\ has_messages = [s \in Sessions |-> FALSE]
    /\ messages = [s \in Sessions |-> <<>>]
    /\ session_engine = [s \in Sessions |-> Unbound]
    /\ chat_history = [e \in Engines |-> <<>>]
    /\ pc = [s \in Sessions |-> "idle"]
    /\ prompt = [s \in Sessions |-> None]
    /\ seed_i = [s \in Sessions |-> 0]
    /\ df = [s \in Sessions |-> NoFrame]
    /\ chat_query = [s \in Sessions |-> None]
    /\ response = [s \in Sessions |-> NoResponse]
    /\ sources = [s \in Sessions |-> <<>>]

\* A new script run starts: the first connection of the session, or a widget
\* event (a submitted chat input, the Refresh button).  Only a session that
\* has rendered before can carry a submission.  MaxMessages caps the history a
\* further text is submitted to.
Rerun(s, I) ==
    /\ pc[s] \in Ended
    /\ \E p \in I :
        /\ p # None => has_messages[s]
        /\ Truthy(p) => Len(messages[s]) < MaxMessages
        /\ prompt' = [prompt EXCEPT ![s] = p]
    /\ pc' = [pc EXCEPT ![s] = "setup"]
    /\ response' = [response EXCEPT ![s] = NoResponse]
    /\ sources' = [sources EXCEPT ![s] = <<>>]
    /\ chat_query' = [chat_query EXCEPT ![s] = None]
    /\ UNCHANGED <<has_messages, messages, session_engine, chat_history, seed_i, df>>

\* line 59: if "messages" not in st.session_state
NeedsSetup(s) == ~has_messages[s]

\* lines 59-87: the guard, the session id and headers, chat_history.clear()
SetupClear(s) ==
    /\ pc[s] = "setup"
    /\ IF NeedsSetup(s)
       THEN /\ chat_history' = [chat_history EXCEPT ![chat_engine] = <<>>]
            /\ seed_i' = [seed_i EXCEPT ![s] = 1]
            /\ pc' = [pc EXCEPT ![s] = "seed"]
       ELSE /\ pc' = [pc EXCEPT ![s] = "table"]
            /\ UNCHANGED <<chat_history, seed_i>>
    /\ UNCHANGED <<has_messages, messages, session_engine, prompt, df, chat_query,
                   response, sources>>

\* lines 88-89: one iteration of the loop appending DEFAULT_MESSAGES
SeedAppend(s) ==
    /\ pc[s] = "seed"
    /\ seed_i[s] <= Len(DEFAULT_MESSAGES)
    /\ chat_history' = [chat_history EXCEPT
                          ![chat_engine] = Append(@, DEFAULT_MESSAGES[seed_i[s]])]
    /\ seed_i' = [seed_i EXCEPT ![s] = @ + 1]
    /\ UNCHANGED <<has_messages, messages, session_engine, pc, prompt, df, chat_query,
                   response, sources>>

\* lines 91-95: messages is read back from the engine's chat_history
StoreMessages(s) ==
    /\ pc[s] = "seed"
    /\ seed_i[s] > Len(DEFAULT_MESSAGES)
    /\ messages' = [messages EXCEPT ![s] =
                      [i \in 1..Len(chat_history[chat_engine]) |->
                          [role |-> chat_history[chat_engine][i].role,
                           content |-> chat_history[chat_engine][i].content]]]
    /\ has_messages' = [has_messages EXCEPT ![s] = TRUE]
    /\ session_engine' = [session_engine EXCEPT ![s] = chat_engine]
    /\ seed_i' = [seed_i EXCEPT ![s] = 0]
    /\ pc' = [pc EXCEPT ![s] = "table"]
    /\ UNCHANGED <<chat_history, prompt, df, chat_query, response, sources>>

\* lines 107-112: a fresh snapshot from get_inputs() and the column rule
RenderTable(s, T) ==
    /\ pc[s] = "table"
    /\ \E rows \in T :
        df' = [df EXCEPT ![s] = [rows |-> rows, columns |-> FrameColumns(rows)]]
    /\ pc' = [pc EXCEPT ![s] = "input"]
    /\ UNCHANGED <<has_messages, messages, session_engine, chat_history, prompt, seed_i,
                   chat_query, response, sources>>

\* lines 119-135: the chat input, then the (read-only) rendering of the history
ChatInput(s) ==
    /\ pc[s] = "input"
    /\ messages' = [messages EXCEPT ![s] =
                      IF Truthy(prompt[s])
                      THEN Append(@, [role |-> "user", content |-> prompt[s]])
                      ELSE @]
    /\ df' = [df EXCEPT ![s] = NoFrame]
    /\ pc' = [pc EXCEPT ![s] = "generate"]
    /\ UNCHANGED <<has_messages, session_engine, chat_history, prompt, seed_i,
                   chat_query, response, sources>>

\* lines 138-141: messages[-1] raises IndexError on an empty list; otherwise the
\* engine is called with prompt unless the last role is "assistant"
Generate(s) ==
    /\ pc[s] = "generate"
    /\ IF messages[s] = <<>>
       THEN /\ pc' = [pc EXCEPT ![s] = "index_error"]
            /\ prompt' = [prompt EXCEPT ![s] = None]
            /\ UNCHANGED chat_query
       ELSE IF Last(messages[s]).role # "assistant"
       THEN /\ chat_query' = [chat_query EXCEPT ![s] = prompt[s]]
            /\ pc' = [pc EXCEPT ![s] = "chat"]
            /\ UNCHANGED prompt
       ELSE /\ pc' = [pc EXCEPT ![s] = "idle"]
            /\ prompt' = [prompt EXCEPT ![s] = None]
            /\ UNCHANGED chat_query
    /\ UNCHANGED <<has_messages, messages, session_engine, chat_history, seed_i, df,
                   response, sources>>

\* The engine's side of a successful chat(): it records the exchange in its
\* chat_history.
EngineRecord(history, query, r) ==
    history \o << [role |-> "user", content |-> query],
                  [role |-> "assistant", content |-> r.response] >>

\* lines 141-167 when chat() returns r: attribution, formatting, the append
ChatReturn(s, R) ==
    /\ pc[s] = "chat"
    /\ \E r \in R :
        /\ response' = [response EXCEPT ![s] = r]
        /\ sources' = [sources EXCEPT ![s] = Sources(r)]
        /\ messages' = [messages EXCEPT ![s] =
                          Append(@, [role |-> "assistant",
                                     content |-> ResponseText(r, Sources(r))])]
        /\ chat_history' = [chat_history EXCEPT ![session_engine[s]] =
                              EngineRecord(@, chat_query[s], r)]
    /\ pc' = [pc EXCEPT ![s] = "idle"]
    /\ prompt' = [prompt EXCEPT ![s] = None]
    /\ UNCHANGED <<has_messages, session_engine, seed_i, df, chat_query>>

\* line 141 when chat() raises: nothing catches it, the run ends there
ChatFail(s) ==
    /\ pc[s] = "chat"
    /\ pc' = [pc EXCEPT ![s] = "chat_failed"]
    /\ prompt' = [prompt EXCEPT ![s] = None]
    /\ UNCHANGED <<has_messages, messages, session_engine, chat_history, seed_i, df,
                   chat_query, response, sources>>

\* One step of the script run of session s.  A run is cut where it touches the
\* engine every session shares (clear, each append, the read-back, the chat()
\* call and its return) and where it takes an input (the table snapshot, the
\* chat input): script threads of different sessions interleave at these points.
\* I, T and R are the inputs, table snapshots and responses drawn from.
Step(s, I, T, R) ==
    \/ Rerun(s, I)
    \/ SetupClear(s)
    \/ SeedAppend(s)
    \/ StoreMessages(s)
    \/ RenderTable(s, T)
    \/ ChatInput(s)
    \/ Generate(s)
    \/ ChatReturn(s, R)
    \/ ChatFail(s)

\* Several sessions, each in its own script thread.
Next == \E s \in Sessions : Step(s, {None, <<"q">>}, {<<>>}, SharedResponses)

Spec == Init /\ [][Next]_vars

\* One session alone.
NextSolo == Step(1, Inputs, Snapshots, TurnResponses)

SpecSolo == Init /\ [][NextSolo]_vars

\* One turn of one session, over every shape of response: the session has
\* submitted "q" and its chat() call is in flight.
InitAttr ==
    /\ has_messages = [s \in Sessions |-> s = 1]
    /\ messages = [s \in Sessions |->
                     IF s = 1
                     THEN Append(DEFAULT_MESSAGES, [role |-> "user", content |-> <<"q">>])
                     ELSE <<>>]
    /\ session_engine = [s \in Sessions |-> IF s = 1 THEN chat_engine ELSE Unbound]
    /\ chat_history = [e \in Engines |-> DEFAULT_MESSAGES]
    /\ pc = [s \in Sessions |-> IF s = 1 THEN "chat" ELSE "idle"]
    /\ prompt = [s \in Sessions |-> IF s = 1 THEN <<"q">> ELSE None]
    /\ seed_i = [s \in Sessions |-> 0]
    /\ df = [s \in Sessions |-> NoFrame]
    /\ chat_query = [s \in Sessions |-> IF s = 1 THEN <<"q">> ELSE None]
    /\ response = [s \in Sessions |-> NoResponse]
    /\ sources = [s \in Sessions |-> <<>>]

NextAttr == ChatReturn(1, AllResponses)

SpecAttr == InitAttr /\ [][NextAttr]_vars

\* --------------------------------------------------------------- properties
CountRole(seq, role) == Cardinality({i \in 1..Len(seq) : seq[i].role = role})

\* No submission, the empty string, or spaces only.
IsBlank(p) == p = None \/ \A i \in 1..Len(p) : p[i] = " "

\* Every user message of the session carries non-blank text.
NonBlankTurns(s) ==
    \A i \in 1..Len(messages[s]) :
        messages[s][i].role = "user" => ~IsBlank(messages[s][i].content)

\* C1: after non-empty submissions only, once a session's render pass has run
\* to its end, its message list holds as many assistant messages as user
\* messages.
C1_TurnTaking ==
    \A s \in Sessions :
        (pc[s] = "idle" /\ has_messages[s] /\ NonBlankTurns(s)) =>
            CountRole(messages[s], "assistant") = CountRole(messages[s], "user")

\* C2: a turn whose chat() call failed still ends with an assistant message as
\* the last message of the session (the session does not stay in PendingAnswer).
C2_FailureStillAnswers ==
    \A s \in Sessions :
        (pc[s] = "chat_failed" /\ NonBlankTurns(s)) =>
            messages[s] # <<>> /\ Last(messages[s]).role = "assistant"

\* C3: in a render pass whose submitted input is blank (none, "" or whitespace
\* only) no user message is appended and chat() is not invoked.
C3_BlankInputIsNoOp ==
    [][\A s \in Sessions :
          IsBlank(prompt[s]) =>
              /\ (pc[s] = "input" /\ pc'[s] = "generate") => messages'[s] = messages[s]
              /\ ~(pc[s] = "generate" /\ pc'[s] = "chat")]_vars

\* The history of the engine handle a session holds.
HandleHistory(s) == chat_history[session_engine[s]]

Roles(seq) == [i \in 1..Len(seq) |-> seq[i].role]

Acts(s) == pc'[s] # pc[s] \/ seed_i'[s] # seed_i[s]

\* C4: a step of one session changes neither the message list of another
\* session nor the chat history of the handle bound to that other session, and
\* between render passes a handle's history mirrors its own session's messages
\* turn for turn.
C4_SessionsIndependent ==
    /\ [][\A s, t \in Sessions :
            (s # t /\ Acts(s) /\ session_engine[t] \in Engines) =>
                /\ messages'[t] = messages[t]
                /\ HandleHistory(t)' = HandleHistory(t)]_vars
    /\ [](\A t \in Sessions :
            (pc[t] = "idle" /\ session_engine[t] \in Engines) =>
                Roles(HandleHistory(t)) = Roles(messages[t]))

\* C5: a session's message list is exactly the starter exchange right after
\* creation, starts with it (so is non-empty) ever after, and the setup is not
\* run again once the session has its messages.
C5_SeededOnce ==
    /\ [](\A s \in Sessions :
            has_messages[s] =>
                /\ Len(messages[s]) >= Len(DEFAULT_MESSAGES)
                /\ SubSeq(messages[s], 1, Len(DEFAULT_MESSAGES)) = DEFAULT_MESSAGES)
    /\ [][\A s \in Sessions :
            /\ (~has_messages[s] /\ has_messages'[s]) => messages'[s] = DEFAULT_MESSAGES
            /\ has_messages[s] => ~(pc[s] = "setup" /\ pc'[s] = "seed")]_vars

AllNull(rows) == \A i \in 1..Len(rows) : rows[i].status = Null

HasStatusColumn(frame) == InSeq("status", frame.columns)

\* C8: for every (non-empty) snapshot of indexed-file rows, the rendered table
\* lacks the status column exactly when every row's status is null.
C8_StatusColumnAllOrNothing ==
    \A s \in Sessions :
        (pc[s] = "input" /\ df[s].rows # <<>>) =>
            (~HasStatusColumn(df[s]) <=> AllNull(df[s].rows))

\* C10: while a chat() call is in flight the session's last message has role
\* user and the query passed is that message's content.
C10_ChatOnlyOnPendingUser ==
    \A s \in Sessions :
        (pc[s] = "chat" /\ NonBlankTurns(s)) =>
            /\ messages[s] # <<>>
            /\ Last(messages[s]).role = "user"
            /\ chat_query[s] = Last(messages[s]).content

\* ------------------------------------------------ properties of attribution
\* A turn of session s has been answered and its response is still at hand.
Answered(s) == pc[s] = "idle" /\ response[s] # NoResponse

\* The source list the response carries, if it carries one.
GivenNodes(r) == IF r.shape = "list" THEN r.source_nodes ELSE <<>>

\* Node n names a document: its metadata is a mapping and the path, else the
\* name, is a non-empty text.
Names(n) == ~n.malformed /\ Truthy(FullPath(n))

\* seg is the part of full_path after its last "/".
IsFinalSegment(seg, full_path) ==
    \E j \in 1..(Len(full_path) + 1) :
        /\ seg = SubSeq(full_path, j, Len(full_path))
        /\ \A i \in 1..Len(seg) : seg[i] # "/"
        /\ j > 1 => full_path[j - 1] = "/"

\* d is the display name of node n.
IsDisplayOf(d, n) ==
    /\ Len(d) >= 2
    /\ d[1] = Backquote /\ d[Len(d)] = Backquote
    /\ IsFinalSegment(SubSeq(d, 2, Len(d) - 1), FullPath(n))

\* The first position in nodes of a node displayed as d (0 if none).
FirstSeen(d, nodes) ==
    LET at == {k \in 1..Len(nodes) : Names(nodes[k]) /\ IsDisplayOf(d, nodes[k])}
    IN  IF at = {} THEN 0 ELSE CHOOSE k \in at : \A l \in at : k <= l

\* C6: the attributed source list holds each display name at most once, every
\* entry is the display name of a returned node, the entries stand in the order
\* of their first occurrence, and (no node being malformed) no display name is
\* left out; paths that differ only in the directory give one entry.
C6_SourcesDeduplicated ==
    \A s \in Sessions :
        Answered(s) =>
            LET nodes == GivenNodes(response[s])
                src == sources[s]
            IN  /\ \A i, j \in 1..Len(src) : i # j => src[i] # src[j]
                /\ \A i \in 1..Len(src) : FirstSeen(src[i], nodes) > 0
                /\ \A i, j \in 1..Len(src) :
                      i < j => FirstSeen(src[i], nodes) < FirstSeen(src[j], nodes)
                /\ (\A k \in 1..Len(nodes) : ~nodes[k].malformed) =>
                      \A k \in 1..Len(nodes) :
                          Names(nodes[k]) =>
                              \E i \in 1..Len(src) : IsDisplayOf(src[i], nodes[k])

\* Two returned nodes whose paths differ only in the directory gave one entry.
C6_Witness ==
    \E s \in Sessions :
        /\ Answered(s)
        /\ Len(sources[s]) = 1
        /\ \E k, l \in 1..Len(GivenNodes(response[s])) :
              LET nodes == GivenNodes(response[s]) IN
              /\ k < l
              /\ Names(nodes[k]) /\ Names(nodes[l])
              /\ nodes[k].path # None /\ nodes[l].path # None
              /\ nodes[k].path # nodes[l].path

RECURSIVE ConcatAll(_)
ConcatAll(seqs) == IF seqs = <<>> THEN <<>> ELSE Head(seqs) \o ConcatAll(Tail(seqs))

\* The names with a comma and a space between neighbours.
CommaSeparated(names) ==
    ConcatAll([i \in 1..(2 * Len(names) - 1) |->
                  IF i % 2 = 1 THEN names[(i + 1) \div 2] ELSE <<",", " ">>])

\* C7: the appended assistant message is the answer text verbatim when the
\* source list is empty, absent or null; otherwise it is the answer text, the
\* label and the comma-joined attributed names; the label is there exactly when
\* a name was attributed.
C7_ResponseText ==
    \A s \in Sessions :
        Answered(s) =>
            LET r == response[s]
                answer == response[s].response
                msg == Last(messages[s])
                src == sources[s]
            IN  /\ msg.role = "assistant"
                /\ GivenNodes(r) = <<>> => msg.content = answer
                /\ src = <<>> <=> msg.content = answer
                /\ src # <<>> <=> InSeq(Label, msg.content)
                /\ src # <<>> =>
                      msg.content = answer \o <<Label>> \o CommaSeparated(src)

\* An answer went out with two attributed names behind the label.
C7_Witness ==
    \E s \in Sessions :
        /\ Answered(s)
        /\ Len(sources[s]) = 2
        /\ Len(Last(messages[s]).content) > Len(response[s].response)

\* C9: a malformed source node is skipped and the rest are still attributed:
\* every returned node that names a document has its display name in the
\* source list, and the assistant message is appended.
C9_MalformedNodeSkipped ==
    \A s \in Sessions :
        Answered(s) =>
            LET nodes == GivenNodes(response[s]) IN
            /\ Last(messages[s]).role = "assistant"
            /\ \A k \in 1..Len(nodes) :
                  Names(nodes[k]) =>
                      \E i \in 1..Len(sources[s]) : IsDisplayOf(sources[s][i], nodes[k])

====
